---- MODULE Spec2Model ----
(***************************************************************************)
(* Model of the iceberg-training scenario drivers:                         *)
(*   publications/article_demo.py   (demo driver, MinIO/Nessie clients)    *)
(*   tests/test_table_operations.py (table-operations test driver)         *)
(* The query engine, the catalog and the object store are collaborators:   *)
(* their answers and faults are the environment of the drivers.            *)
(***************************************************************************)
EXTENDS Integers, Sequences, FiniteSets, TLC

(***************************************************************************)
(* Bounds of the model.                                                    *)
(***************************************************************************)
\* objects a folder may hold beyond one full listing page in the initial bucket
MaxOver == 1
\* small object counts (1..MaxSmall) a folder may hold in the initial bucket
MaxSmall == 1
\* rows of the largest result set handed to print_table on its own
MaxPrintRows == 8
\* largest max_rows tried besides the default
MaxLimit == 6

(***************************************************************************)
(* Program constants.                                                      *)
(***************************************************************************)
\* keys one list_objects_v2 call returns (no MaxKeys, no continuation token)
ListPageSize == 1000
\* delete_objects batch size
BatchSize == 1000

(***************************************************************************)
(* Strings as sequences of characters: startswith, rstrip('/').            *)
(***************************************************************************)
SalesPrefix == <<"s", "a", "l", "e", "s", "_">>
Slash == "/"

StartsWith(s, p) == /\ Len(s) >= Len(p)
                    /\ SubSeq(s, 1, Len(p)) = p

RECURSIVE RStrip(_, _)
RStrip(s, c) == IF Len(s) > 0 /\ s[Len(s)] = c
                THEN RStrip(SubSeq(s, 1, Len(s) - 1), c)
                ELSE s

\* folder names of the warehouse bucket, in the store's (lexicographic) order
SalesA == SalesPrefix \o <<"a">>
SalesAB == SalesPrefix \o <<"a", "b">>
TestEmp == <<"t", "e", "s", "t">>
FolderOrder == <<SalesA, SalesAB, TestEmp>>
FolderNames == {FolderOrder[i] : i \in 1..Len(FolderOrder)}

(***************************************************************************)
(* The object store bucket "warehouse":                                    *)
(*   objs[f]  number of objects whose key is f/...                         *)
(*   dirs     folders the store lists as a common prefix although no key   *)
(*            lies below them (MinIO's empty folder markers)               *)
(***************************************************************************)
ObjCounts == (0..MaxSmall) \cup {ListPageSize + k : k \in 0..MaxOver}

\* initial buckets: what earlier runs and other users left behind
Buckets == {b \in [objs : [FolderNames -> ObjCounts], dirs : SUBSET FolderNames] :
              /\ \A f \in b.dirs : b.objs[f] = 0
              /\ TestEmp \notin b.dirs
              /\ b.objs[TestEmp] <= 1}

Min(a, b) == IF a < b THEN a ELSE b

\* CommonPrefixes of list_objects_v2(Delimiter='/'): "<folder>/" in order
CommonPrefixes(b) ==
  LET Listed(i) == b.objs[FolderOrder[i]] > 0 \/ FolderOrder[i] \in b.dirs
      F[i \in 0..Len(FolderOrder)] ==
        IF i = 0 THEN <<>>
        ELSE IF Listed(i) THEN Append(F[i - 1], FolderOrder[i] \o <<Slash>>)
             ELSE F[i - 1]
  IN F[Len(FolderOrder)]

\* KeyCount of list_objects_v2(Prefix=prefix, MaxKeys=maxKeys) per folder:
\* the keys f/... with the prefix, in key order, cut at maxKeys.
\* A key f/x starts with prefix iff f/ starts with it or prefix = f/ + more
\* (no such key is modelled: prefixes are folder names with or without '/').
ListKeys(b, prefix, maxKeys) ==
  LET Match(i) == StartsWith(FolderOrder[i] \o <<Slash>>, prefix)
      F[i \in 0..Len(FolderOrder)] ==
        IF i = 0 THEN [f \in FolderNames |-> 0]
        ELSE LET got == F[i - 1]
                 sofar == got[FolderOrder[1]] + got[FolderOrder[2]]
                          + got[FolderOrder[3]]
                 take == IF Match(i)
                         THEN Min(b.objs[FolderOrder[i]], maxKeys - sofar)
                         ELSE 0
             IN [got EXCEPT ![FolderOrder[i]] = take]
  IN F[Len(FolderOrder)]

Total(listing) == listing[FolderOrder[1]] + listing[FolderOrder[2]]
                  + listing[FolderOrder[3]]

\* list_tables(only_non_empty=False): the folders, '/' stripped
list_tables(b) ==
  LET cp == CommonPrefixes(b)
  IN [i \in 1..Len(cp) |-> RStrip(cp[i], Slash)]

\* list_table_contents(table_prefix): one page of the keys with the prefix
list_table_contents(b, table_prefix) == ListKeys(b, table_prefix, ListPageSize)

\* the batches delete_table_files cuts n keys into: their sizes
RECURSIVE Batches(_)
Batches(n) == IF n <= 0 THEN <<>>
              ELSE <<Min(n, BatchSize)>> \o Batches(n - BatchSize)

RECURSIVE SumSeq(_)
SumSeq(s) == IF s = <<>> THEN 0 ELSE Head(s) + SumSeq(Tail(s))

\* delete_table_files(table_prefix): [bucket after, deleted_count], with the
\* keys handed to delete_objects (how many per folder) and the batch sizes
NoKeys == [f \in FolderNames |-> 0]
delete_table_files(b, table_prefix) ==
  LET files == list_table_contents(b, table_prefix)
  IN IF Total(files) = 0
     THEN [bucket |-> b, count |-> 0, sent |-> NoKeys, batches |-> <<>>]
     ELSE [bucket |-> [b EXCEPT !.objs =
                         [f \in FolderNames |-> b.objs[f] - files[f]]],
           count |-> SumSeq(Batches(Total(files))),
           sent |-> files,
           batches |-> Batches(Total(files))]

\* delete_empty_prefixes(prefix_filter): [bucket after, deleted], with the
\* keys handed to delete_object
delete_empty_prefixes(b, prefix_filter) ==
  LET cp == CommonPrefixes(b)
      Empty(folder) == Total(ListKeys(b, folder, 1)) = 0
      hit == {i \in 1..Len(cp) :
                StartsWith(cp[i], prefix_filter) /\ Empty(cp[i])}
  IN [bucket |-> [b EXCEPT !.dirs = b.dirs \ {RStrip(cp[i], Slash) : i \in hit}],
      deleted |-> Cardinality(hit),
      keys |-> {cp[i] : i \in hit} \cup {RStrip(cp[i], Slash) : i \in hit}]

\* cleanup_sales_tables that cleans every folder list_tables() returns
CleanupAllTables(b) ==
  LET tables == list_tables(b)
      F[i \in 0..Len(tables)] ==
        IF i = 0 THEN [bucket |-> b, count |-> 0, sent |-> NoKeys, batches |-> <<>>]
        ELSE LET r == delete_table_files(F[i - 1].bucket, tables[i])
             IN [bucket |-> r.bucket, count |-> F[i - 1].count + r.count,
                 sent |-> [f \in FolderNames |-> F[i - 1].sent[f] + r.sent[f]],
                 batches |-> F[i - 1].batches \o r.batches]
      done == F[Len(tables)]
      last == delete_empty_prefixes(done.bucket, SalesPrefix)
  IN [bucket |-> last.bucket, count |-> done.count, sent |-> done.sent,
      batches |-> done.batches, keys |-> last.keys]

\* cleanup_sales_tables(): [bucket after, total_deleted], with the keys sent
\* to delete_objects (sent, batches) and to delete_object (keys)
cleanup_sales_tables(b) ==
  LET tables == list_tables(b)
      F[i \in 0..Len(tables)] ==
        IF i = 0 THEN [bucket |-> b, count |-> 0, sent |-> NoKeys, batches |-> <<>>]
        ELSE IF StartsWith(tables[i], SalesPrefix)
             THEN LET r == delete_table_files(F[i - 1].bucket, tables[i])
                  IN [bucket |-> r.bucket, count |-> F[i - 1].count + r.count,
                      sent |-> [f \in FolderNames |-> F[i - 1].sent[f] + r.sent[f]],
                      batches |-> F[i - 1].batches \o r.batches]
             ELSE F[i - 1]
      done == F[Len(tables)]
      last == delete_empty_prefixes(done.bucket, SalesPrefix)
  IN [bucket |-> last.bucket, count |-> done.count, sent |-> done.sent,
      batches |-> done.batches, keys |-> last.keys]

(***************************************************************************)
(* The query engine and its catalog, as the SQL text of the drivers uses   *)
(* them.  A table is its column set and its snapshot history (each         *)
(* snapshot a set of rows); a reference (main, dev, the tag) points to a   *)
(* table state.  Absent tables and references are records with exists =    *)
(* FALSE.                                                                  *)
(***************************************************************************)
NoTable == [exists |-> FALSE, cols |-> {}, hist |-> <<>>]
NoRef == [exists |-> FALSE, table |-> NoTable]

Rows(t) == IF Len(t.hist) = 0 THEN {} ELSE t.hist[Len(t.hist)]
Commit(t, rows) == [t EXCEPT !.hist = Append(t.hist, rows)]
IsPrefix(s, t) == Len(s) <= Len(t) /\ SubSeq(t, 1, Len(s)) = s

\* rows of the demo's nessie.sales (amounts in whole currency units)
SalesCols == {"order_id", "customer", "amount", "order_date"}
Sale(id, amount, region) == [order_id |-> id, amount |-> amount, region |-> region]
Sales123 == {Sale(1, 1500, "NULL"), Sale(2, 2300, "NULL"), Sale(3, 890, "NULL")}
Sales4 == {Sale(4, 5000, "Northeast")}
Sales5 == {Sale(5, 12000, "West")}
Sales6 == {Sale(6, 8500, "South")}

\* the test's INSERT without its last VALUES tuple
EmployeesFour ==
  {[order_id |-> 1, amount |-> 95000, region |-> "Engineering"],
   [order_id |-> 2, amount |-> 75000, region |-> "Sales"],
   [order_id |-> 3, amount |-> 88000, region |-> "Engineering"],
   [order_id |-> 4, amount |-> 82000, region |-> "Marketing"]}

\* rows of the test's nessie.test_employees
EmpCols == {"id", "name", "department", "salary"}
Emp(id, department, salary) ==
  [order_id |-> id, amount |-> salary, region |-> department]
Employees == {Emp(1, "Engineering", 95000), Emp(2, "Sales", 75000),
              Emp(3, "Engineering", 88000), Emp(4, "Marketing", 82000),
              Emp(5, "Sales", 71000)}

\* WHERE clauses of the drivers' statements
Matches(where, r) ==
  CASE where = "all" -> TRUE
    [] where = "order_id = 1" -> r.order_id = 1
    [] where = "amount < 1000" -> r.amount < 1000
    [] where = "department = 'Engineering'" -> r.region = "Engineering"
    [] where = "department = 'Sales'" -> r.region = "Sales"
    [] where = "id = 1" -> r.order_id = 1
    [] OTHER -> FALSE

\* ORDER BY order_id / id: the rows as a sequence
RECURSIVE OrderById(_)
OrderById(S) ==
  IF S = {} THEN <<>>
  ELSE LET r == CHOOSE x \in S : \A y \in S : x.order_id <= y.order_id
       IN <<r>> \o OrderById(S \ {r})

\* ORDER BY made_current_at DESC: the snapshot ids, latest first
HistoryRows(t) == [i \in 1..Len(t.hist) |-> [snapshot_id |-> Len(t.hist) + 1 - i]]

\* a result set (an Arrow table), or None when the flight has no endpoints
NoResult == [none |-> TRUE, cols |-> {}, rows |-> <<>>]
ResultSet(cols, rows) == [none |-> FALSE, cols |-> cols, rows |-> rows]

(***************************************************************************)
(* The engine's state: the references of the catalog and the session's     *)
(* current reference.  sticky tells whether the endpoint keeps the session *)
(* context of USE BRANCH from one Flight call to the next.                 *)
(***************************************************************************)
\* a SQL statement of a driver: what it does, AT which reference, its data
Stmt(op, ref, rows, where, setv) ==
  [op |-> op, ref |-> ref, rows |-> rows, where |-> where, setv |-> setv]

Target(st, e) == IF st.ref = "session" THEN e.session ELSE st.ref

Ok(e, result, wrote) ==
  [fault |-> "none", eng |-> e, result |-> result, wrote |-> wrote]
Fault(e, kind) ==
  [fault |-> kind, eng |-> e, result |-> NoResult, wrote |-> FALSE]

SetTable(e, r, t) == [e EXCEPT ![r] = [exists |-> TRUE, table |-> t]]

\* the departments of the aggregate query, with their highest salary
Aggregate(rows) ==
  OrderById({[order_id |-> Cardinality({x \in rows : x.region = r.region}),
              amount |-> CHOOSE m \in {x.amount : x \in {y \in rows : y.region = r.region}} :
                           \A x \in {y \in rows : y.region = r.region} : x.amount <= m,
              region |-> r.region] : r \in rows})

\* statements that work on the table of a reference
TableStmt(st, e, snap) ==
  LET r == Target(st, e)
      t == e[r].table
  IN CASE st.op = "CREATE TABLE" ->
            IF t.exists THEN Fault(e, "already_exists")
            ELSE Ok(SetTable(e, r, [exists |-> TRUE, cols |-> st.rows, hist |-> <<>>]),
                    NoResult, TRUE)
       [] st.op = "DROP TABLE IF EXISTS" ->
            Ok(SetTable(e, r, NoTable), NoResult, FALSE)
       [] ~t.exists -> Fault(e, "not_found")
       [] st.op = "DROP TABLE" -> Ok(SetTable(e, r, NoTable), NoResult, FALSE)
       [] st.op = "ALTER TABLE ADD COLUMNS" ->
            IF st.rows \subseteq t.cols THEN Fault(e, "already_exists")
            ELSE Ok(SetTable(e, r, [t EXCEPT !.cols = t.cols \cup st.rows]),
                    NoResult, TRUE)
       [] st.op = "INSERT" ->
            IF \E x \in st.rows : x.region # "NULL" /\ t.cols = SalesCols
            THEN Fault(e, "schema_mismatch")
            ELSE Ok(SetTable(e, r, Commit(t, Rows(t) \cup st.rows)), NoResult, TRUE)
       [] st.op = "UPDATE" ->
            Ok(SetTable(e, r, Commit(t,
                 {IF Matches(st.where, x) THEN [x EXCEPT !.amount = st.setv] ELSE x
                    : x \in Rows(t)})), NoResult, TRUE)
       [] st.op = "DELETE" ->
            Ok(SetTable(e, r, Commit(t, {x \in Rows(t) : ~Matches(st.where, x)})),
               NoResult, TRUE)
       [] st.op = "SELECT" ->
            Ok(e, ResultSet(t.cols, OrderById({x \in Rows(t) : Matches(st.where, x)})),
               FALSE)
       [] st.op = "SELECT AGGREGATE" ->
            Ok(e, ResultSet({"department", "employee_count", "avg_salary", "max_salary"},
                            Aggregate(Rows(t))), FALSE)
       [] st.op = "SELECT AT SNAPSHOT" ->
            IF snap \in 1..Len(t.hist)
            THEN Ok(e, ResultSet(t.cols, OrderById(t.hist[snap])), FALSE)
            ELSE Fault(e, "not_found")
       [] st.op = "TABLE HISTORY" ->
            Ok(e, ResultSet({"made_current_at", "snapshot_id", "parent_id",
                             "is_current_ancestor"}, HistoryRows(t)), FALSE)
       [] OTHER -> Fault(e, "unsupported")

\* statements that work on the references themselves
RefStmt(st, e) ==
  CASE st.op = "CREATE BRANCH" ->
         IF e.dev.exists THEN Fault(e, "already_exists")
         ELSE Ok([e EXCEPT !.dev = e[e.session]], NoResult, FALSE)
    [] st.op = "CREATE TAG" ->
         IF e.tag.exists THEN Fault(e, "already_exists")
         ELSE Ok([e EXCEPT !.tag = e[st.ref]], NoResult, FALSE)
    [] st.op = "DROP BRANCH IF EXISTS" -> Ok([e EXCEPT !.dev = NoRef], NoResult, FALSE)
    [] st.op = "DROP TAG IF EXISTS" -> Ok([e EXCEPT !.tag = NoRef], NoResult, FALSE)
    [] st.op = "DROP BRANCH" ->
         IF e.dev.exists THEN Ok([e EXCEPT !.dev = NoRef], NoResult, FALSE)
         ELSE Fault(e, "not_found")
    [] st.op = "DROP TAG" ->
         IF e.tag.exists THEN Ok([e EXCEPT !.tag = NoRef], NoResult, FALSE)
         ELSE Fault(e, "not_found")
    [] st.op = "USE BRANCH" ->
         IF ~e.dev.exists THEN Fault(e, "not_found")
         ELSE Ok([e EXCEPT !.session = IF e.sticky THEN "dev" ELSE e.session],
                 NoResult, FALSE)
    [] st.op = "MERGE BRANCH" ->
         IF ~e.dev.exists THEN Fault(e, "not_found")
         ELSE IF IsPrefix(e.main.table.hist, e.dev.table.hist)
              THEN Ok([e EXCEPT !.main = e.dev], NoResult, FALSE)
              ELSE Fault(e, "conflict")
    [] OTHER -> Fault(e, "unsupported")

RefOps == {"CREATE BRANCH", "CREATE TAG", "DROP BRANCH IF EXISTS", "DROP TAG IF EXISTS",
           "DROP BRANCH", "DROP TAG", "USE BRANCH", "MERGE BRANCH"}

\* the engine's answer to one statement: [fault, eng, result, wrote]
Exec(st, e, snap) ==
  IF st.op \in RefOps THEN RefStmt(st, e)
  ELSE IF ~e[Target(st, e)].exists THEN Fault(e, "not_found")
       ELSE TableStmt(st, e, snap)

(***************************************************************************)
(* The drivers' scripts: the steps of main() in program order.             *)
(*   sql          execute(...), result not kept                            *)
(*   sql_swallow  execute(...) inside try/except: pass                     *)
(*   query        result = execute(...), then printed                      *)
(*   cleanup      minio.cleanup_sales_tables()                             *)
(*   inspect      check_minio_status / check_nessie_status / final report  *)
(*   capture      result.column('snapshot_id')[0].as_py()                  *)
(*   assert       a row-count or value check of the test driver            *)
(***************************************************************************)
NoRows == {}
NoStmt == Stmt("none", "session", NoRows, "all", 0)
Step(phase, kind, st, arg) == [phase |-> phase, kind |-> kind, st |-> st, arg |-> arg]
Sql(phase, kind, op, ref, rows, where, setv) ==
  Step(phase, kind, Stmt(op, ref, rows, where, setv), op)

\* the historical read of step 5 without its AT TAG clause
TagRefOmitted == "session"
\* "SELECT * FROM nessie.sales AT TAG v1_0_release"
TagRef == "tag"

\* the INSERT and the UPDATE of the BRANCH phase without an AT BRANCH clause
WriteBranchOmitted == "session"

\* the AT BRANCH clause of the INSERT and the UPDATE of the BRANCH phase
WriteBranch == "dev"

DemoScript == <<
  \* lines 286-307
  Sql("CLEANUP", "sql_swallow", "DROP TABLE IF EXISTS", "session", NoRows, "all", 0),
  Sql("CLEANUP", "sql_swallow", "DROP BRANCH IF EXISTS", "dev", NoRows, "all", 0),
  Sql("CLEANUP", "sql_swallow", "DROP TAG IF EXISTS", "tag", NoRows, "all", 0),
  Step("CLEANUP", "cleanup", NoStmt, "pre"),
  \* lines 316-336
  Sql("CREATE", "sql", "CREATE TABLE", "session", SalesCols, "all", 0),
  Sql("CREATE", "sql", "INSERT", "session", Sales123, "all", 0),
  Sql("CREATE", "query", "SELECT", "session", NoRows, "all", 0),
  Step("CREATE", "inspect", NoStmt, "minio"),
  Step("CREATE", "inspect", NoStmt, "nessie"),
  \* lines 345-355
  Sql("EVOLVE", "sql", "ALTER TABLE ADD COLUMNS", "session", {"region"}, "all", 0),
  Sql("EVOLVE", "sql", "INSERT", "session", Sales4, "all", 0),
  Sql("EVOLVE", "query", "SELECT", "session", NoRows, "all", 0),
  Step("EVOLVE", "inspect", NoStmt, "minio"),
  \* lines 364-396
  Sql("BRANCH", "sql", "CREATE BRANCH", "dev", NoRows, "all", 0),
  Step("BRANCH", "inspect", NoStmt, "nessie"),
  Sql("BRANCH", "sql", "USE BRANCH", "dev", NoRows, "all", 0),
  Sql("BRANCH", "sql", "INSERT", WriteBranch, Sales5, "all", 0),
  Sql("BRANCH", "sql", "UPDATE", WriteBranch, NoRows, "order_id = 1", 1600),
  Sql("BRANCH", "query", "SELECT", "dev", NoRows, "all", 0),
  Sql("BRANCH", "query", "SELECT", "main", NoRows, "all", 0),
  Sql("BRANCH", "sql", "MERGE BRANCH", "main", NoRows, "all", 0),
  Sql("BRANCH", "query", "SELECT", "main", NoRows, "all", 0),
  Step("BRANCH", "inspect", NoStmt, "minio"),
  Step("BRANCH", "inspect", NoStmt, "nessie"),
  \* lines 407-444
  Sql("TIME_TRAVEL", "query", "TABLE HISTORY", "session", NoRows, "all", 0),
  Step("TIME_TRAVEL", "capture", NoStmt, "current_snapshot_id"),
  Sql("TIME_TRAVEL", "sql", "DELETE", "session", NoRows, "amount < 1000", 0),
  Sql("TIME_TRAVEL", "query", "SELECT", "session", NoRows, "all", 0),
  Sql("TIME_TRAVEL", "query", "TABLE HISTORY", "session", NoRows, "all", 0),
  Step("TIME_TRAVEL", "capture", NoStmt, "new_snapshot_id"),
  Sql("TIME_TRAVEL", "query", "SELECT AT SNAPSHOT", "session", NoRows, "all", 0),
  \* lines 454-476
  Sql("TAG", "sql", "CREATE TAG", "main", NoRows, "all", 0),
  Step("TAG", "inspect", NoStmt, "nessie"),
  Sql("TAG", "sql", "INSERT", "session", Sales6, "all", 0),
  Sql("TAG", "query", "SELECT", "session", NoRows, "all", 0),
  Sql("TAG", "query", "SELECT", TagRef, NoRows, "all", 0),
  Step("TAG", "inspect", NoStmt, "minio"),
  \* lines 485-508
  Step("FINAL_REPORT", "inspect", NoStmt, "minio"),
  Step("FINAL_REPORT", "inspect", NoStmt, "nessie"),
  \* lines 517-525
  Sql("CLEANUP", "sql", "DROP TAG", "tag", NoRows, "all", 0),
  Sql("CLEANUP", "sql", "DROP BRANCH", "dev", NoRows, "all", 0),
  Sql("CLEANUP", "sql", "DROP TABLE", "session", NoRows, "all", 0),
  Step("CLEANUP", "cleanup", NoStmt, "post") >>

TestScript == <<
  \* lines 111-161
  Sql("TEST", "sql", "CREATE TABLE", "session", EmpCols, "all", 0),
  Sql("TEST", "sql", "INSERT", "session", Employees, "all", 0),
  Sql("TEST", "query", "SELECT", "session", NoRows, "all", 0),
  Step("TEST", "assert", NoStmt, "rows = 5"),
  Sql("TEST", "query", "SELECT", "session", NoRows, "department = 'Engineering'", 0),
  Step("TEST", "assert", NoStmt, "rows = 2"),
  \* lines 167-197
  Sql("TEST", "query", "SELECT AGGREGATE", "session", NoRows, "all", 0),
  Sql("TEST", "sql", "UPDATE", "session", NoRows, "id = 1", 100000),
  Sql("TEST", "query", "SELECT", "session", NoRows, "id = 1", 0),
  Step("TEST", "assert", NoStmt, "salary = 100000"),
  \* lines 203-225
  Sql("TEST", "sql", "DELETE", "session", NoRows, "department = 'Sales'", 0),
  Sql("TEST", "query", "SELECT", "session", NoRows, "all", 0),
  Step("TEST", "assert", NoStmt, "rows = 3"),
  Sql("TEST", "sql", "DROP TABLE", "session", NoRows, "all", 0) >>

\* the phases of a full demo run, in order
PhaseOrder == <<"INIT", "CLEANUP", "CREATE", "EVOLVE", "BRANCH", "TIME_TRAVEL", "TAG",
                "FINAL_REPORT", "CLEANUP", "DONE">>

(***************************************************************************)
(* What the drivers print for a result set.  A printed line is its kind    *)
(* and the number it carries: the index of a data row, the N of the "more  *)
(* rows" line, the width of a header or of a rule.                         *)
(***************************************************************************)
Line(kind, n) == [kind |-> kind, n |-> n]
NumRows(table) == Len(table.rows)

\* print_table whose suffix is printed from n = max_rows on
PrintTableSuffixAtLimit(table, limit) ==
  IF table.none \/ NumRows(table) = 0
  THEN <<Line("(no rows)", 0)>>
  ELSE <<Line("header", Cardinality(table.cols)),
         Line("rule", 17 * Cardinality(table.cols))>>
       \o [i \in 1..Min(NumRows(table), limit) |-> Line("row", i)]
       \o (IF NumRows(table) >= limit
           THEN <<Line("... and N more rows", NumRows(table) - limit)>>
           ELSE <<>>)
       \o <<Line("blank", 0)>>

\* print_table(table, max_rows=10) of the demo
DefaultMaxRows == 10
print_table(table, limit) ==
  IF table.none \/ NumRows(table) = 0
  THEN <<Line("(no rows)", 0)>>
  ELSE <<Line("header", Cardinality(table.cols)),
         Line("rule", 17 * Cardinality(table.cols))>>
       \o [i \in 1..Min(NumRows(table), limit) |-> Line("row", i)]
       \o (IF NumRows(table) > limit
           THEN <<Line("... and N more rows", NumRows(table) - limit)>>
           ELSE <<>>)
       \o <<Line("blank", 0)>>

\* print_results(table) of the test
print_results(table) ==
  IF table.none \/ NumRows(table) = 0
  THEN <<Line("Query returned 0 rows", 0)>>
  ELSE <<Line("Results:", 0), Line("rule", 80),
         Line("header", Cardinality(table.cols)), Line("rule", 80)>>
       \o [i \in 1..NumRows(table) |-> Line("row", i)]
       \o <<Line("rule", 80), Line("Total rows: N", NumRows(table))>>

(***************************************************************************)
(* State of one run of a driver.                                           *)
(*   prog       which driver runs: "demo" (article_demo.py) or "test"      *)
(*   ctl        where main() is: "init", "connect", "run" (step pc of the  *)
(*              script), "except", "finally", "exited"                     *)
(*   pc         the step of the script that runs next or that raised (0:   *)
(*              the script has not started)                                *)
(*   ret        the value main() is about to return (-1: none yet)         *)
(*   exitCode   the process exit status (-1: still running)                *)
(*   conn       the Flight client handle: "none", "open", "closed"         *)
(*   result     the driver's result / results variable                     *)
(*   answered   how the engine answered the last query                     *)
(*   snapshot   current_snapshot_id (0: not bound yet)                     *)
(*   deleted    the value cleanup_sales_tables() returned last (-1: none)  *)
(*   eng        the engine's catalog and session                           *)
(*   bucket     the object store bucket                                    *)
(*   err, out   the exception in flight, the message the handler printed   *)
(*   max_rows   the row limit print_table is called with                   *)
(*   stdout     the lines the last print_table / print_results printed     *)
(* History variables, read by the properties only:                         *)
(*   fatal      an exception left a step of main()                         *)
(*   lastFault  the fault the last collaborator call raised, or "none"     *)
(*   phases     the phases entered so far                                  *)
(*   log        the SQL statements and object-store cleanups sent so far   *)
(***************************************************************************)
VARIABLES prog, ctl, pc, ret, exitCode, conn, result, answered, snapshot,
          deleted, eng, bucket, err, out, fatal, lastFault, phases, log,
          max_rows, stdout

vars == <<prog, ctl, pc, ret, exitCode, conn, result, answered, snapshot,
          deleted, eng, bucket, err, out, fatal, lastFault, phases, log,
          max_rows, stdout>>

Script == IF prog = "demo" THEN DemoScript ELSE TestScript
Cur == Script[pc]
AtStep == ctl = "run" /\ pc <= Len(Script)
Last(s) == s[Len(s)]

\* the folder the engine writes the driver's table into
TableFolder == IF prog = "demo" THEN SalesA ELSE TestEmp

\* faults a collaborator may raise whatever the request
UnexpectedFaults == {"network", "permission_denied"}

\* what an earlier run may have left in the catalog
OldTable(cols) == [exists |-> TRUE, cols |-> cols, hist |-> <<{}>>]
Leftovers(cols) ==
  LET T == [exists |-> TRUE, table |-> OldTable(cols)]
      E == [exists |-> TRUE, table |-> NoTable]
  IN {[main |-> E, dev |-> NoRef, tag |-> NoRef],
      [main |-> T, dev |-> NoRef, tag |-> NoRef],
      [main |-> T, dev |-> T, tag |-> NoRef],
      [main |-> T, dev |-> T, tag |-> T]}

Engines(p) ==
  IF p = "demo"
  THEN {[main |-> c.main, dev |-> c.dev, tag |-> c.tag, session |-> "main", sticky |-> k]
          : c \in Leftovers(SalesCols), k \in BOOLEAN}
  ELSE {[main |-> c.main, dev |-> NoRef, tag |-> NoRef, session |-> "main", sticky |-> FALSE]
          : c \in {x \in Leftovers(EmpCols) : ~x.dev.exists}}

Init ==
  /\ prog \in {"demo", "test"}
  /\ ctl = "init"
  /\ pc = 0
  /\ ret = -1
  /\ exitCode = -1
  /\ conn = "none"
  /\ result = NoResult
  /\ answered = "none"
  /\ snapshot = 0
  /\ deleted = -1
  /\ eng \in Engines(prog)
  /\ bucket \in Buckets
  /\ err = "none"
  /\ out = "none"
  /\ fatal = FALSE
  /\ lastFault = "none"
  /\ phases = <<"INIT">>
  /\ log = <<>>
  /\ max_rows = DefaultMaxRows
  /\ stdout = <<>>

\* the phase of the step about to run is entered
Enter(phase) == IF Last(phases) = phase THEN phases ELSE Append(phases, phase)

\* an exception leaves the step: control goes to the except clause of main()
Raise(e, ph) ==
  /\ ctl' = "except"
  /\ err' = e
  /\ fatal' = TRUE
  /\ phases' = Append(ph, "FAILED")

\* the step is done: on to the next one
Advance(ph) ==
  /\ ctl' = "run"
  /\ pc' = pc + 1
  /\ phases' = ph
  /\ UNCHANGED <<err, fatal>>

\* no inner handler: a fault of a DROP leaves the try block
SwallowsNothing(f) == FALSE

\* the inner handlers of the pre-scenario cleanup: "except: pass"
Swallows(f) == TRUE

\* the object an IF EXISTS statement names is not there
Absent(st, e) ==
  CASE st.op = "DROP TABLE IF EXISTS" -> ~e[Target(st, e)].table.exists
    [] st.op = "DROP BRANCH IF EXISTS" -> ~e.dev.exists
    [] st.op = "DROP TAG IF EXISTS" -> ~e.tag.exists
    [] OTHER -> FALSE

\* the engine wrote a data or metadata file for the driver's table
Written(b, wrote) ==
  IF wrote
  THEN [objs |-> [b.objs EXCEPT ![TableFolder] = @ + 1], dirs |-> b.dirs \ {TableFolder}]
  ELSE b

(***************************************************************************)
(* The steps of main().                                                    *)
(***************************************************************************)
\* the collaborator clients are constructed: in the demo before the try
Construct ==
  /\ ctl = "init"
  /\ \/ /\ ctl' = "connect"
        /\ lastFault' = "none"
        /\ UNCHANGED <<exitCode, err, fatal, phases>>
     \/ /\ prog = "demo"
        /\ \E f \in UnexpectedFaults :
             /\ lastFault' = f
             /\ err' = f
        /\ ctl' = "exited"
        /\ exitCode' = 1
        /\ fatal' = TRUE
        /\ phases' = Append(phases, "FAILED")
  /\ UNCHANGED <<max_rows, stdout>>
  /\ UNCHANGED <<prog, pc, ret, conn, result, answered, snapshot, deleted, eng,
                 bucket, out, log>>

\* connect(): the Flight client is created, then authenticated
Connect ==
  /\ ctl = "connect"
  /\ \/ /\ conn' = "open"
        /\ lastFault' = "none"
        /\ ctl' = "run"
        /\ pc' = 1
        /\ UNCHANGED <<err, fatal, phases>>
     \/ \E f \in UnexpectedFaults, opened \in BOOLEAN :
          /\ conn' = IF opened THEN "open" ELSE "none"
          /\ lastFault' = f
          /\ Raise(f, phases)
          /\ UNCHANGED pc
  /\ UNCHANGED <<max_rows, stdout>>
  /\ UNCHANGED <<prog, ret, exitCode, result, answered, snapshot, deleted, eng,
                 bucket, out, log>>

\* a DROP ... IF EXISTS of the pre-scenario cleanup, inside try/except
SqlSwallow ==
  /\ AtStep /\ Cur.kind = "sql_swallow"
  /\ log' = Append(log, Cur.st.op)
  /\ LET o == Exec(Cur.st, eng, snapshot)
         env == UnexpectedFaults \cup
                (IF Absent(Cur.st, eng) THEN {"not_found"} ELSE {})
     IN \E f \in env \cup {o.fault} :
          /\ lastFault' = f
          /\ eng' = IF f = "none" THEN o.eng ELSE eng
          /\ IF f = "none" \/ Swallows(f)
             THEN Advance(Enter(Cur.phase))
             ELSE Raise(f, Enter(Cur.phase)) /\ UNCHANGED pc
  /\ UNCHANGED <<max_rows, stdout>>
  /\ UNCHANGED <<prog, ret, exitCode, conn, result, answered, snapshot, deleted,
                 bucket, out>>

\* a statement whose result set is not kept
SqlExec ==
  /\ AtStep /\ Cur.kind = "sql"
  /\ log' = Append(log, Cur.st.op)
  /\ LET o == Exec(Cur.st, eng, snapshot)
     IN \E f \in UnexpectedFaults \cup {o.fault} :
          /\ lastFault' = f
          /\ IF f = "none"
             THEN /\ eng' = o.eng
                  /\ bucket' = Written(bucket, o.wrote)
                  /\ Advance(Enter(Cur.phase))
             ELSE /\ Raise(f, Enter(Cur.phase))
                  /\ UNCHANGED <<pc, eng, bucket>>
  /\ UNCHANGED <<max_rows, stdout>>
  /\ UNCHANGED <<prog, ret, exitCode, conn, result, answered, snapshot, deleted, out>>

\* the engine answers a query from the table as it was one snapshot ago
StaleEngine(st, e) ==
  LET r == Target(st, e)
      t == e[r].table
  IN IF e[r].exists /\ Len(t.hist) > 0
     THEN [e EXCEPT ![r].table.hist = SubSeq(t.hist, 1, Len(t.hist) - 1)]
     ELSE e

\* the columns the drivers read a value from
ReadColumns == {"snapshot_id", "salary"}

\* how the engine may answer a query: as the catalog says, or not
Answers == {"faithful", "stale", "empty", "nocolumn", "noendpoint"}

Answer(how, st, e, snap) ==
  LET r == Exec(st, e, snap).result
  IN CASE how = "faithful" -> r
       [] how = "stale" -> Exec(st, StaleEngine(st, e), snap).result
       [] how = "empty" -> ResultSet(r.cols, <<>>)
       [] how = "nocolumn" -> ResultSet(r.cols \ ReadColumns, r.rows)
       [] OTHER -> NoResult

\* result = execute(SELECT ...), then print_table(result) / print_results(results)
Query ==
  /\ AtStep /\ Cur.kind = "query"
  /\ log' = Append(log, Cur.st.op)
  /\ LET o == Exec(Cur.st, eng, snapshot)
     IN \/ \E f \in UnexpectedFaults \cup ({o.fault} \ {"none"}) :
             /\ lastFault' = f
             /\ Raise(f, Enter(Cur.phase))
             /\ UNCHANGED <<pc, result, answered, stdout>>
        \/ /\ o.fault = "none"
           /\ \E how \in Answers :
                /\ answered' = how
                /\ result' = Answer(how, Cur.st, eng, snapshot)
                /\ stdout' = IF prog = "demo"
                             THEN print_table(Answer(how, Cur.st, eng, snapshot), max_rows)
                             ELSE print_results(Answer(how, Cur.st, eng, snapshot))
           /\ lastFault' = "none"
           /\ Advance(Enter(Cur.phase))
  /\ UNCHANGED <<prog, max_rows, ret, exitCode, conn, snapshot, deleted, eng, bucket,
                 out>>

\* deleted = minio.cleanup_sales_tables()
\* A fault of the object store ends it at its first listing or at its last.
Cleanup ==
  /\ AtStep /\ Cur.kind = "cleanup"
  /\ log' = Append(log, "cleanup_sales_tables")
  /\ LET r == cleanup_sales_tables(bucket)
     IN \/ /\ bucket' = r.bucket
           /\ deleted' = r.count
           /\ lastFault' = "none"
           /\ Advance(Enter(Cur.phase))
        \/ \E f \in UnexpectedFaults, late \in BOOLEAN :
             /\ bucket' = IF late THEN [r.bucket EXCEPT !.dirs = bucket.dirs] ELSE bucket
             /\ lastFault' = f
             /\ Raise(f, Enter(Cur.phase))
             /\ UNCHANGED <<pc, deleted>>
  /\ UNCHANGED <<max_rows, stdout>>
  /\ UNCHANGED <<prog, ret, exitCode, conn, result, answered, snapshot, eng, out>>

\* check_minio_status, check_nessie_status, the final report: reads only
Inspect ==
  /\ AtStep /\ Cur.kind = "inspect"
  /\ \/ /\ lastFault' = "none"
        /\ Advance(Enter(Cur.phase))
     \/ \E f \in UnexpectedFaults :
          /\ lastFault' = f
          /\ Raise(f, Enter(Cur.phase))
          /\ UNCHANGED pc
  /\ UNCHANGED <<max_rows, stdout>>
  /\ UNCHANGED <<prog, ret, exitCode, conn, result, answered, snapshot, deleted, eng,
                 bucket, out, log>>

\* result.column(name)[0].as_py(): the exception it raises, or "none"
CellFault(res, name) ==
  IF res.none THEN "AttributeError"
  ELSE IF name \notin res.cols THEN "KeyError"
       ELSE IF Len(res.rows) = 0 THEN "IndexError"
            ELSE "none"

\* a capture that reads the last row of the history, its oldest snapshot
CaptureLast ==
  /\ AtStep /\ Cur.kind = "capture"
  /\ LET f == CellFault(result, "snapshot_id")
     IN IF f = "none"
        THEN /\ snapshot' = IF Cur.arg = "current_snapshot_id"
                            THEN result.rows[Len(result.rows)].snapshot_id ELSE snapshot
             /\ Advance(Enter(Cur.phase))
        ELSE /\ Raise(f, Enter(Cur.phase))
             /\ UNCHANGED <<pc, snapshot>>
  /\ lastFault' = "none"
  /\ UNCHANGED <<max_rows, stdout>>
  /\ UNCHANGED <<prog, ret, exitCode, conn, result, answered, deleted, eng, bucket,
                 out, log>>

\* a capture that falls back to no value when the cell cannot be read
CaptureOrNone ==
  /\ AtStep /\ Cur.kind = "capture"
  /\ snapshot' = IF Cur.arg # "current_snapshot_id" THEN snapshot
                 ELSE IF CellFault(result, "snapshot_id") = "none"
                      THEN result.rows[1].snapshot_id ELSE 0
  /\ Advance(Enter(Cur.phase))
  /\ lastFault' = "none"
  /\ UNCHANGED <<max_rows, stdout>>
  /\ UNCHANGED <<prog, ret, exitCode, conn, result, answered, deleted, eng, bucket,
                 out, log>>

\* current_snapshot_id / new_snapshot_id = result.column('snapshot_id')[0].as_py()
Capture ==
  /\ AtStep /\ Cur.kind = "capture"
  /\ LET f == CellFault(result, "snapshot_id")
     IN IF f = "none"
        THEN /\ snapshot' = IF Cur.arg = "current_snapshot_id"
                            THEN result.rows[1].snapshot_id ELSE snapshot
             /\ Advance(Enter(Cur.phase))
        ELSE /\ Raise(f, Enter(Cur.phase))
             /\ UNCHANGED <<pc, snapshot>>
  /\ lastFault' = "none"
  /\ UNCHANGED <<max_rows, stdout>>
  /\ UNCHANGED <<prog, ret, exitCode, conn, result, answered, deleted, eng, bucket,
                 out, log>>

\* the exception a check of the test driver raises, or "none"
CheckFault(check, res) ==
  CASE check = "rows = 5" ->
         IF res.none THEN "AttributeError"
         ELSE IF Len(res.rows) # 5 THEN "Expected 5 rows" ELSE "none"
    [] check = "rows = 2" ->
         IF res.none THEN "AttributeError"
         ELSE IF Len(res.rows) # 2 THEN "Expected 2 Engineering employees" ELSE "none"
    [] check = "rows = 3" ->
         IF res.none THEN "AttributeError"
         ELSE IF Len(res.rows) # 3 THEN "Expected 3 rows after deletion" ELSE "none"
    [] check = "salary = 100000" ->
         IF CellFault(res, "salary") # "none" THEN CellFault(res, "salary")
         ELSE IF res.rows[1].amount # 100000 THEN "Expected salary 100000.00"
              ELSE "none"
    [] OTHER -> "none"

\* if <mismatch>: raise Exception(<message>)
Check ==
  /\ AtStep /\ Cur.kind = "assert"
  /\ LET f == CheckFault(Cur.arg, result)
     IN IF f = "none"
        THEN Advance(Enter(Cur.phase))
        ELSE Raise(f, Enter(Cur.phase)) /\ UNCHANGED pc
  /\ lastFault' = "none"
  /\ UNCHANGED <<max_rows, stdout>>
  /\ UNCHANGED <<prog, ret, exitCode, conn, result, answered, snapshot, deleted, eng,
                 bucket, out, log>>

\* a handler that reports success
HandlerReturnZero == 1 - 1

\* the value the except clause returns
HandlerReturn == 1

\* every step is done: return 0
ReturnOk ==
  /\ ctl = "run" /\ pc = Len(Script) + 1
  /\ ret' = 0
  /\ ctl' = "finally"
  /\ phases' = Append(phases, "DONE")
  /\ UNCHANGED <<max_rows, stdout>>
  /\ UNCHANGED <<prog, pc, exitCode, conn, result, answered, snapshot, deleted, eng,
                 bucket, err, out, fatal, lastFault, log>>

\* a handler like the inner ones: the exception is dropped, the script goes on
ExceptPass ==
  /\ ctl = "except"
  /\ out' = err
  /\ ctl' = "run"
  /\ pc' = pc + 1
  /\ UNCHANGED <<max_rows, stdout>>
  /\ UNCHANGED <<prog, ret, exitCode, conn, result, answered, snapshot, deleted, eng,
                 bucket, err, fatal, lastFault, phases, log>>

\* a handler that tears the scenario down before it returns
ExceptCleanup ==
  /\ ctl = "except"
  /\ out' = err
  /\ ret' = 1
  /\ ctl' = "finally"
  /\ eng' = [eng EXCEPT !.main.table = NoTable, !.dev = NoRef, !.tag = NoRef]
  /\ bucket' = cleanup_sales_tables(bucket).bucket
  /\ log' = log \o <<"DROP TAG", "DROP BRANCH", "DROP TABLE", "cleanup_sales_tables">>
  /\ UNCHANGED <<max_rows, stdout>>
  /\ UNCHANGED <<prog, pc, exitCode, conn, result, answered, snapshot, deleted,
                 err, fatal, lastFault, phases>>

\* a handler that prints a fixed line instead of the exception
ExceptSilent ==
  /\ ctl = "except"
  /\ out' = "failed"
  /\ ret' = 1
  /\ ctl' = "finally"
  /\ UNCHANGED <<max_rows, stdout>>
  /\ UNCHANGED <<prog, pc, exitCode, conn, result, answered, snapshot, deleted, eng,
                 bucket, err, fatal, lastFault, phases, log>>

\* except Exception as e: print the error, return 1
Except ==
  /\ ctl = "except"
  /\ out' = err
  /\ ret' = HandlerReturn
  /\ ctl' = "finally"
  /\ UNCHANGED <<max_rows, stdout>>
  /\ UNCHANGED <<prog, pc, exitCode, conn, result, answered, snapshot, deleted, eng,
                 bucket, err, fatal, lastFault, phases, log>>

\* the client is closed at the end of the try block only
HasClientOnSuccess == conn # "none" /\ ret = 0

\* close(): "if self.client": is there a handle to close
HasClient == conn # "none"

\* finally: close the client; then sys.exit(main())
Finally ==
  /\ ctl = "finally"
  /\ ctl' = "exited"
  /\ conn' = IF HasClient THEN "closed" ELSE conn
  /\ \/ /\ exitCode' = ret
        /\ lastFault' = "none"
        /\ UNCHANGED <<err, fatal, phases>>
     \/ /\ HasClient
        /\ \E f \in UnexpectedFaults :
             /\ lastFault' = f
             /\ err' = f
        /\ exitCode' = 1
        /\ fatal' = TRUE
        /\ phases' = IF Last(phases) = "FAILED" THEN phases
                     ELSE Append(phases, "FAILED")
  /\ UNCHANGED <<max_rows, stdout>>
  /\ UNCHANGED <<prog, pc, ret, result, answered, snapshot, deleted, eng, bucket,
                 out, log>>

Next ==
  \/ Construct
  \/ Connect
  \/ SqlSwallow
  \/ SqlExec
  \/ Query
  \/ Cleanup
  \/ Inspect
  \/ Capture
  \/ Check
  \/ ReturnOk
  \/ Except
  \/ Finally

Spec == Init /\ [][Next]_vars

(***************************************************************************)
(* print_table on its own: called once with any table and any row limit.   *)
(***************************************************************************)
PrintTables ==
  {NoResult} \cup {ResultSet(SalesCols, [i \in 1..n |-> Sale(i, 1000, "NULL")])
                     : n \in 0..MaxPrintRows}
PrintLimits == (0..MaxLimit) \cup {DefaultMaxRows}

PrintInit ==
  /\ prog = "print_table"
  /\ ctl = "call"
  /\ pc = 0
  /\ ret = -1
  /\ exitCode = -1
  /\ conn = "none"
  /\ result \in PrintTables
  /\ answered = "none"
  /\ snapshot = 0
  /\ deleted = -1
  /\ eng = [main |-> NoRef, dev |-> NoRef, tag |-> NoRef, session |-> "main",
            sticky |-> FALSE]
  /\ bucket = [objs |-> [f \in FolderNames |-> 0], dirs |-> {}]
  /\ err = "none"
  /\ out = "none"
  /\ fatal = FALSE
  /\ lastFault = "none"
  /\ phases = <<>>
  /\ log = <<>>
  /\ max_rows \in PrintLimits
  /\ stdout = <<>>

\* print_table(result, max_rows)
PrintCall ==
  /\ prog = "print_table" /\ ctl = "call"
  /\ stdout' = print_table(result, max_rows)
  /\ ctl' = "returned"
  /\ UNCHANGED <<prog, pc, ret, exitCode, conn, result, answered, snapshot, deleted,
                 eng, bucket, err, out, fatal, lastFault, phases, log, max_rows>>

PrintNext == PrintCall

PrintSpec == PrintInit /\ [][PrintNext]_vars

(***************************************************************************)
(* Properties.                                                             *)
(***************************************************************************)
Range(s) == {s[i] : i \in 1..Len(s)}
Demo == prog = "demo"
Test == prog = "test"
Stopped == ctl \in {"except", "finally", "exited"}
Failed == Last(phases) = "FAILED"

\* the steps that send a request the log records
SentKinds == {"sql", "sql_swallow", "query", "cleanup"}
\* the log entry of a step
Entry(step) == IF step.kind = "cleanup" THEN "cleanup_sales_tables" ELSE step.st.op
\* the requests of the first n steps of a script
RECURSIVE SentBy(_, _)
SentBy(script, n) ==
  IF n = 0 THEN <<>>
  ELSE IF script[n].kind \in SentKinds
       THEN Append(SentBy(script, n - 1), Entry(script[n]))
       ELSE SentBy(script, n - 1)

\* C1: in every run of the demo the phases are entered in the fixed order
\* INIT, CLEANUP, CREATE, EVOLVE, BRANCH, TIME_TRAVEL, TAG, FINAL_REPORT,
\* CLEANUP and the run ends in DONE or FAILED: the phases entered are always
\* a prefix of that order, followed by FAILED at most; DONE is entered only
\* with every request of the script sent, in script order; once FAILED is
\* entered no step of the script runs; an exited run ends in DONE or FAILED.
C1_PhaseOrder ==
  Demo =>
    /\ \E n \in 1..Len(PhaseOrder) :
         \/ phases = SubSeq(PhaseOrder, 1, n)
         \/ phases = Append(SubSeq(PhaseOrder, 1, n), "FAILED")
    /\ "DONE" \in Range(phases) =>
         /\ pc = Len(DemoScript) + 1
         /\ log = SentBy(DemoScript, Len(DemoScript))
    /\ Failed => /\ Stopped
                 /\ log = SentBy(DemoScript, Min(pc, Len(DemoScript)))
    /\ ctl = "exited" => Last(phases) \in {"DONE", "FAILED"}

C1_Witness ==
  Demo /\ ctl = "exited" /\ exitCode = 0 /\ phases = PhaseOrder

\* the steps of the demo that create and drop its table
StepOf(op) == CHOOSE i \in 1..Len(DemoScript) : DemoScript[i].st.op = op
CreateTableStep == StepOf("CREATE TABLE")
DropTableStep == StepOf("DROP TABLE")
\* the demo failed inside the try block with its table created and not dropped
FailedWithTable ==
  Demo /\ Failed /\ ctl = "exited" /\ pc > CreateTableStep /\ pc <= DropTableStep

C3_ConnectionReleased ==
  ctl = "exited" => conn # "open"

C3_Witness ==
  ctl = "exited" /\ conn = "closed" /\ fatal /\ pc = 0

\* C4: the exit status is 0 exactly when no exception left a step of main()
\* (construction, connect, the steps of the script, close), and then every
\* step of the script ran; it is 1 otherwise.
C4_ExitCode ==
  ctl = "exited" =>
    /\ exitCode \in {0, 1}
    /\ exitCode = 0 <=> ~fatal
    /\ exitCode = 0 => pc = Len(Script) + 1 /\ log = SentBy(Script, Len(Script))

C4_Witness ==
  ctl = "exited" /\ exitCode = 1 /\ fatal /\ pc = Len(Script) + 1 /\ ret = 0

\* C5 as stated: a pre-scenario DROP of the demo that raised a fault other
\* than "not found" is not swallowed: the script does not go on to its next
\* step.
C5_OnlyNotFoundSwallowed ==
  (Demo /\ pc > 1 /\ pc <= Len(DemoScript) /\ DemoScript[pc - 1].kind = "sql_swallow"
        /\ lastFault \notin {"none", "not_found"})
    => ctl # "run"

\* C6 as stated: right after a call of cleanup_sales_tables() has returned,
\* a second call deletes nothing and returns 0.
C6_CleanupIdempotent ==
  (ctl = "run" /\ pc > 1 /\ Script[pc - 1].kind = "cleanup")
    => /\ cleanup_sales_tables(bucket).count = 0
       /\ cleanup_sales_tables(bucket).bucket = bucket

\* nothing of the demo's is in the catalog or in the bucket
NothingToClean ==
  /\ ~eng.main.table.exists /\ ~eng.dev.exists /\ ~eng.tag.exists
  /\ \A f \in FolderNames : StartsWith(f, SalesPrefix) => bucket.objs[f] = 0
PreCleanup == Demo /\ AtStep /\ Cur.phase = "CLEANUP" /\ pc < CreateTableStep

\* C7: with nothing to clean, every step of the pre-scenario cleanup of the
\* demo (the three DROPs, whether the engine answers or raises "not found",
\* and the object-store cleanup) goes on to the next step without a fatal
\* fault, unless a collaborator raises an unexpected fault; so the run
\* arrives at CREATE TABLE.
C7_EmptyCleanupProceeds ==
  [][(PreCleanup /\ NothingToClean /\ lastFault' \notin UnexpectedFaults)
       => (ctl' = "run" /\ pc' = pc + 1 /\ ~fatal' /\ NothingToClean')]_vars

C7_Witness ==
  /\ Demo /\ ctl = "run" /\ pc = CreateTableStep /\ ~fatal
  /\ NothingToClean /\ deleted = 0 /\ bucket.dirs = {}

\* the messages of the test driver's checks
CheckMessages == {"Expected 5 rows", "Expected 2 Engineering employees",
                  "Expected salary 100000.00", "Expected 3 rows after deletion"}
\* a check of the test driver has failed
CheckFailed ==
  /\ Test /\ Stopped /\ pc >= 1 /\ pc <= Len(TestScript)
  /\ TestScript[pc].kind = "assert"

\* C8: when a check of the test driver fails, nothing is sent to the engine
\* after the query it checked, the handler prints the message of the check
\* and the process exits with status 1.
C8_AssertHalts ==
  CheckFailed =>
    /\ log = SentBy(TestScript, pc)
    /\ fatal
    /\ ctl # "except" => /\ out = CheckFault(TestScript[pc].arg, result)
                         /\ out # "none"
                         /\ ret = 1
    /\ ctl = "exited" => exitCode = 1

C8_Witness ==
  /\ CheckFailed /\ ctl = "exited" /\ out \in CheckMessages
  /\ TestScript[pc].arg = "salary = 100000"

\* the first capture of the demo, and the time-travel query that uses it
CaptureStep ==
  CHOOSE i \in 1..Len(DemoScript) : DemoScript[i].arg = "current_snapshot_id"
\* the history result cannot yield a snapshot id
BadHistory(res) == res.none \/ "snapshot_id" \notin res.cols \/ Len(res.rows) = 0

MergeStep == StepOf("MERGE BRANCH")
\* the rows a query showed hold order 5 and order 1 at the amount 1600
ShowsDevWrites(res) ==
  /\ \E i \in 1..Len(res.rows) : res.rows[i].order_id = 5
  /\ \E i \in 1..Len(res.rows) : res.rows[i].order_id = 1 /\ res.rows[i].amount = 1600
\* the rows a query showed hold no order 5, and order 1 at the amount 1500
ShowsNoDevWrites(res) ==
  /\ \A i \in 1..Len(res.rows) : res.rows[i].order_id # 5
  /\ \E i \in 1..Len(res.rows) : res.rows[i].order_id = 1 /\ res.rows[i].amount = 1500
Answered(n) == Demo /\ ctl = "run" /\ pc = n + 1 /\ answered = "faithful"

\* C10: in the BRANCH phase of the demo, the query of dev shows the INSERT
\* and the UPDATE made on dev, the query of main before MERGE BRANCH shows
\* neither, and the query of main after the merge shows both (for the
\* answers the engine gives from its catalog).
C10_BranchIsolation ==
  /\ Answered(MergeStep - 2) => ShowsDevWrites(result)
  /\ Answered(MergeStep - 1) => ShowsNoDevWrites(result)
  /\ Answered(MergeStep + 1) => ShowsDevWrites(result)

C10_Witness ==
  Answered(MergeStep + 1) /\ ShowsDevWrites(result) /\ eng.main = eng.dev

\* the time-travel query of the demo, and the table its session works on
SnapshotStep == StepOf("SELECT AT SNAPSHOT")
SessionTable == eng[eng.session].table
HasOrder(rows, id) == \E i \in 1..Len(rows) : rows[i].order_id = id

TagQueries == {i \in 1..Len(DemoScript) :
                 DemoScript[i].phase = "TAG" /\ DemoScript[i].kind = "query"}
TagSelectStep == CHOOSE i \in TagQueries : \A j \in TagQueries : j <= i

\* C12: the tag is created as a copy of main's pointer, no step changes it
\* while it exists (the INSERT of order 6 included, whichever reference the
\* session writes to), and the SELECT AT TAG answered from the catalog shows
\* the rows the tag points to: the rows of main when the tag was created.
C12_TagImmutable ==
  [][/\ (~eng.tag.exists /\ eng'.tag.exists) => eng'.tag = eng.main
     /\ (eng.tag.exists /\ eng'.tag.exists) => eng'.tag = eng.tag
     /\ Answered(TagSelectStep)' =>
          /\ result'.rows = OrderById(Rows(eng'.tag.table))
          /\ ~HasOrder(result'.rows, 6)
          /\ HasOrder(OrderById(Rows(eng'[eng'.session].table)), 6)]_vars

\* the tag has been read after order 6 was written to main itself
C12_Witness ==
  /\ Answered(TagSelectStep) /\ eng.session = "main"
  /\ HasOrder(OrderById(Rows(eng.main.table)), 6)
  /\ eng.tag.table # eng.main.table
  /\ Len(result.rows) = Cardinality(Rows(eng.main.table)) - 1

\* the test's queries: its unfiltered SELECTs, and the read of the updated row
TestAnswered(n) == Test /\ ctl = "run" /\ pc = n + 1 /\ answered = "faithful"
TestSelects == {i \in 1..Len(TestScript) :
                  /\ TestScript[i].kind = "query" /\ TestScript[i].st.op = "SELECT"
                  /\ TestScript[i].st.where = "all"}
FirstSelect == CHOOSE i \in TestSelects : \A j \in TestSelects : i <= j
LastSelect == CHOOSE i \in TestSelects : \A j \in TestSelects : j <= i
UpdatedSelect == CHOOSE i \in 1..Len(TestScript) :
                   /\ TestScript[i].kind = "query" /\ i > 1
                   /\ TestScript[i - 1].st.op = "UPDATE"
SalesRows(rows) == {x \in rows : Matches("department = 'Sales'", x)}

\* C13: in the test, answered from the catalog, the unfiltered SELECT after
\* the INSERT has 5 rows; after the UPDATE the table still holds 5 rows and
\* the read of employee 1 shows the salary 100000; after the DELETE the
\* unfiltered SELECT has the 5 rows less the 2 of department Sales, 3.
C13_TestRowCounts ==
  /\ TestAnswered(FirstSelect) =>
       /\ Len(result.rows) = 5
       /\ Range(result.rows) = Rows(SessionTable)
  /\ TestAnswered(UpdatedSelect) =>
       /\ Cardinality(Rows(SessionTable)) = 5
       /\ Len(result.rows) = 1
       /\ result.rows[1].order_id = 1 /\ result.rows[1].amount = 100000
       /\ Cardinality(SalesRows(Rows(SessionTable))) = 2
  /\ TestAnswered(LastSelect) =>
       /\ Len(result.rows) = 3
       /\ Len(SessionTable.hist) > 1
       /\ Len(result.rows) =
            LET before == SessionTable.hist[Len(SessionTable.hist) - 1]
            IN Cardinality(before) - Cardinality(SalesRows(before))
       /\ SalesRows(Range(result.rows)) = {}

C13_Witness ==
  /\ TestAnswered(LastSelect) /\ Len(result.rows) = 3
  /\ \E i \in 1..Len(result.rows) : result.rows[i].amount = 100000

\* the lines of a kind that print_table printed
Printed(kind) == {i \in 1..Len(stdout) : stdout[i].kind = kind}
Returned == prog = "print_table" /\ ctl = "returned"

\* C14: print_table(table, max_rows), max_rows >= 0, returns without an
\* exception; for no table or a table without rows it prints the "(no rows)"
\* line and nothing else; otherwise it prints min(n, max_rows) data rows, the
\* first ones in order, and one "... and N more rows" line with
\* N = n - max_rows exactly when n > max_rows.
C14_PrintTable ==
  Returned =>
    /\ err = "none" /\ ~fatal
    /\ IF result.none \/ NumRows(result) = 0
       THEN stdout = <<Line("(no rows)", 0)>>
       ELSE /\ Printed("(no rows)") = {}
            /\ Cardinality(Printed("row")) = Min(NumRows(result), max_rows)
            /\ {stdout[i].n : i \in Printed("row")} = 1..Min(NumRows(result), max_rows)
            /\ \A i, j \in Printed("row") : i < j => stdout[i].n < stdout[j].n
            /\ (Printed("... and N more rows") # {}) <=> (NumRows(result) > max_rows)
            /\ Cardinality(Printed("... and N more rows")) <= 1
            /\ \A i \in Printed("... and N more rows") :
                 stdout[i].n = NumRows(result) - max_rows

\* more rows than the limit: the limit's rows and the suffix were printed
C14_Witness ==
  /\ Returned /\ max_rows > 0 /\ NumRows(result) > max_rows
  /\ Cardinality(Printed("row")) = max_rows
  /\ Printed("... and N more rows") # {}

\* the keys f/... of a folder start with 'sales_' ('sales_' holds no '/')
SalesKeys(f) == StartsWith(f \o <<Slash>>, SalesPrefix)
CleanupCalled == log' # log /\ Last(log') = "cleanup_sales_tables"

\* C15: in every call of cleanup_sales_tables(), whether it returns or a
\* fault of the store ends it, every key handed to delete_objects or to
\* delete_object starts with 'sales_' and the objects and folders whose keys
\* do not start with 'sales_' are as before; the keys go to delete_objects in
\* batches of 1 to 1000, and the value returned is the number of those keys.
C15_CleanupNamespace ==
  [][CleanupCalled =>
       LET r == cleanup_sales_tables(bucket)
       IN /\ \A f \in FolderNames : r.sent[f] > 0 => SalesKeys(f)
          /\ \A k \in r.keys : StartsWith(k, SalesPrefix)
          /\ \A f \in FolderNames :
               ~SalesKeys(f) => /\ bucket'.objs[f] = bucket.objs[f]
                                /\ (f \in bucket'.dirs) <=> (f \in bucket.dirs)
          /\ \A i \in 1..Len(r.batches) : r.batches[i] \in 1..BatchSize
          /\ r.count = SumSeq(r.batches)
          /\ r.count = Total(r.sent)
          /\ \A f \in FolderNames : r.sent[f] = bucket.objs[f] - r.bucket.objs[f]
          /\ pc' = pc + 1 => (deleted' = r.count /\ bucket' = r.bucket)]_vars

\* a cleanup has deleted a full page of sales_ keys next to another user's object
C15_Witness ==
  /\ Demo /\ ctl = "run" /\ pc > 1 /\ Script[pc - 1].kind = "cleanup"
  /\ deleted >= ListPageSize
  /\ bucket.objs[TestEmp] = 1
  /\ bucket.objs[SalesA] = 0

====
